---- MODULE Spec2Model ----
(***************************************************************************)
(* A model of the audio transcriber service: the retry/backoff decorator   *)
(* of services.py, the functions it wraps and the two request handlers of  *)
(* main.py, run by a single-threaded cooperative event loop.               *)
(*                                                                         *)
(* A request is a coroutine.  It holds the event loop (running = r) from   *)
(* the moment it is scheduled until it reaches an await that really        *)
(* suspends; a plain (synchronous) call keeps the loop for its whole       *)
(* duration, even inside an "async def".                                   *)
(***************************************************************************)
EXTENDS Integers, Sequences, FiniteSets, TLC

\* ---------------------------------------------------------------- bounds
NumReq == 2
MaxRetries == 3
MaxDelay == 2
MaxFiles == 2

\* Lines in a response text, for the parsers taken alone.
MaxLines == 3

\* Paths in the argument of merge_audios, for the merge taken alone.
MaxMerge == 3

\* ------------------------------------------------------ program constants
DefaultRetries == 3
DefaultDelay == 5
RateLimitCode == 429

\* The concurrent requests (or bare calls of the wrapper).
Req == 1..NumReq
NoReq == 0

\* Arguments of the decorator: any positive pair within the bounds, and the
\* pair transcribe_audio is decorated with.
RetryParams ==
    ((1..MaxRetries) \X (1..MaxDelay)) \cup {<<DefaultRetries, DefaultDelay>>}

\* Values uuid.uuid4() may return.
SessionIds == {"u1", "u2"}

\* Client-supplied upload names, as path components; a leading "/" makes
\* the name absolute.
FileNames == {<<"a.mp3">>, <<"/", "tmp", "a.mp3">>}

\* ---------------------------------------------------------------- errors
ClientError(code) == [type |-> "ClientError", code |-> code]
ServerError == [type |-> "ServerError", code |-> 500]
ValueError == [type |-> "ValueError", code |-> 0]
JSONDecodeError == [type |-> "JSONDecodeError", code |-> 0]
FileNotFoundError == [type |-> "FileNotFoundError", code |-> 0]
MaxRetriesExceeded == [type |-> "Exception", code |-> 0]
Ok == [type |-> "ok", code |-> 0]
Pending == [type |-> "pending", code |-> 0]

\* What a call to the remote service (files.upload, generate_content) can do.
RemoteOutcomes == {Ok, ClientError(RateLimitCode), ClientError(400), ServerError}

\* A fence line: three backquotes, alone or followed by a language name.
Fence == "[fence]"

FenceJson == "[fence]json"

\* The lines a response text is made of: a blank line, the two fences, a
\* JSON document, prose.
Lines == {"", Fence, FenceJson, "{}", "Sure"}

\* A text is the sequence of its lines, text.split("\n"); the empty string
\* is the one empty line.
Texts == UNION {[1..n -> Lines] : n \in 1..MaxLines}

\* What the text of a successful generate_content response can be: bare
\* JSON, JSON in a fence, prose.
Bodies == {<<"{}">>, <<FenceJson, "{}", Fence>>, <<"Sure">>}

\* json.loads(text) returns: the text holds one JSON document and white
\* space (blank lines) only.
JsonLoads(text) == SelectSeq(text, LAMBDA l : l # "") = <<"{}">>

RECURSIVE LStrip(_)
\* The text without its leading blank lines.
LStrip(text) ==
    IF Len(text) > 1 /\ Head(text) = "" THEN LStrip(Tail(text)) ELSE text

RECURSIVE RStrip(_)
\* The text without its trailing blank lines.
RStrip(text) ==
    IF Len(text) > 1 /\ text[Len(text)] = ""
    THEN RStrip(SubSeq(text, 1, Len(text) - 1)) ELSE text

\* response.text.strip()
StripText(text) == RStrip(LStrip(text))

\* text.startswith(three backquotes)
StartsWithFence(text) == text[1] \in {Fence, FenceJson}

\* "\n".join(text.split("\n")[1:-1])
DropFirstAndLast(text) ==
    IF Len(text) <= 2 THEN <<"">> ELSE SubSeq(text, 2, Len(text) - 1)

\* The last line of transcribe_audio: json.loads(response.text), nothing else.
ParseTranscription(text) == IF JsonLoads(text) THEN Ok ELSE JSONDecodeError

\* The planner's parse: json.loads, and on a decode error the text is
\* stripped, loses its first and last line if it starts with a fence, and is
\* parsed once more.
ParsePlan(text) ==
    IF JsonLoads(text) THEN Ok
    ELSE LET t == StripText(text)
             u == IF StartsWithFence(t) THEN DropFirstAndLast(t) ELSE t
         IN  IF JsonLoads(u) THEN Ok ELSE JSONDecodeError

\* What a path given to merge_audios can hold: audio, nothing (a file of
\* zero bytes), bytes that do not decode.
FileKinds == {"audio", "zero", "corrupt"}

\* The paths given to merge_audios taken alone.
MergePaths == {<<"a.mp3">>, <<"b.mp3">>, <<"c.mp3">>}

VARIABLES
    retries,        \* decorator argument
    delay,          \* decorator argument
    api_key,        \* GEMINI_API_KEY is set in the environment
    running,        \* the request holding the event loop, or NoReq
    pc,             \* where each request is
    kind,           \* "process", "timeline", or "call" for a bare wrapped call
    session_id,     \* the request's uuid
    nsaved,         \* uploaded files written so far
    saved_paths,    \* filename -> path, as the set of saved filenames
    file_paths,     \* merge_audios' argument, for the time of the call
    combined,       \* the merge's output: the paths concatenated, in order
    i,              \* the wrapper's loop variable
    calls,          \* invocations of the wrapped function
    sleeps,         \* durations passed to asyncio.sleep, in order
    attempts,       \* how each invocation of the wrapped function ended
    wrapped,        \* how the wrapper call ended
    resp,           \* the response sent
    fsops,          \* file-system accesses: <<request, operation, path>>
    dirs,           \* scratch directories that exist
    cleanup,        \* rmtree(session_dir) was called
    steps,          \* the handler's steps so far, in order
    uploads,        \* calls of client.files.upload started
    slide_text,     \* what extract_text returned
    p_text,         \* a response text given to the parsers taken alone
    p_out,          \* what each client's parse made of p_text
    m_paths,        \* the argument of merge_audios taken alone
    m_kinds,        \* what each path holds
    m_out           \* what that merge_audios did

vars == <<retries, delay, api_key, running, pc, kind, session_id, nsaved,
          saved_paths, file_paths, combined, i, calls, sleeps, attempts,
          wrapped, resp, fsops, dirs, cleanup, steps, uploads, slide_text,
          p_text, p_out, m_paths, m_kinds, m_out>>

\* The variables of the service, and those of the functions taken alone.
serviceVars == <<retries, delay, api_key, running, pc, kind, session_id,
                 nsaved, saved_paths, file_paths, combined, i, calls, sleeps,
                 attempts, wrapped, resp, fsops, dirs, cleanup, steps,
                 uploads, slide_text>>

aloneVars == <<p_text, p_out, m_paths, m_kinds, m_out>>

\* ----------------------------------------------------------------- paths
\* os.path.join: an absolute second argument discards the first.
Join(dir, name) == IF name[1] = "/" THEN name ELSE dir \o name

SessionDir(s) == Join(<<"uploads">>, <<s>>)
MergedPath(s) == Join(<<"processed">>, <<s, "_merged.mp3">>)
PlanPath(s) == Join(<<"processed">>, <<s, "_master_plan.json">>)

\* ------------------------------------------------------------- sequences
\* Variant: the loop body puts the newest audio first.
LoopBodyPrepending(acc, p, kinds) ==
    IF kinds[p] = "audio" THEN <<p>> \o acc ELSE acc

\* One round of merge_audios' loop: a file of size 0 is passed over, a file
\* that does not decode raises and is passed over, any other is added to the
\* end of what was combined so far. An audio is named by its path.
LoopBody(acc, p, kinds) ==
    IF kinds[p] = "zero" THEN acc
    ELSE IF kinds[p] = "corrupt" THEN acc
    ELSE Append(acc, p)

RECURSIVE Combine(_, _, _)
\* "for path in file_paths", from AudioSegment.empty().
Combine(paths, kinds, acc) ==
    IF paths = <<>> THEN acc
    ELSE Combine(Tail(paths), kinds, LoopBody(acc, Head(paths), kinds))

SeqsUpTo(S, n) == UNION {[1..m -> S] : m \in 0..n}

Ops(r, op, paths) == {<<r, op, p>> : p \in paths}
Range(s) == {s[k] : k \in 1..Len(s)}

\* ------------------------------------------------------------- event loop
\* A request may take a step when it holds the loop, or when the loop is
\* idle and picks it.
CanRun(r) == running = r \/ running = NoReq

\* Everything but the decorator's arguments, before any request arrives.
InitRequests ==
    /\ api_key \in BOOLEAN
    /\ running = NoReq
    /\ pc = [r \in Req |-> "idle"]
    /\ kind = [r \in Req |-> "none"]
    /\ session_id = [r \in Req |-> "none"]
    /\ nsaved = [r \in Req |-> 0]
    /\ saved_paths = [r \in Req |-> {}]
    /\ file_paths = [r \in Req |-> <<>>]
    /\ combined = [r \in Req |-> <<>>]
    /\ i = [r \in Req |-> 0]
    /\ calls = [r \in Req |-> 0]
    /\ sleeps = [r \in Req |-> <<>>]
    /\ attempts = [r \in Req |-> <<>>]
    /\ wrapped = [r \in Req |-> Pending]
    /\ resp = [r \in Req |-> [status |-> "none", error |-> Pending]]
    /\ fsops = {}
    /\ dirs = {}
    /\ cleanup = [r \in Req |-> FALSE]
    /\ steps = [r \in Req |-> <<>>]
    /\ uploads = [r \in Req |-> 0]
    /\ slide_text = [r \in Req |-> "unset"]

\* The service: transcribe_audio is decorated with retries=3, delay=5.
\* No function is being looked at alone.
InitAlone ==
    /\ p_text = <<"">>
    /\ p_out = [transcription |-> Pending, plan |-> Pending]
    /\ m_paths = <<>>
    /\ m_kinds = [p \in MergePaths |-> "audio"]
    /\ m_out = [error |-> Pending, audio |-> <<>>]

Init ==
    /\ retries = DefaultRetries
    /\ delay = DefaultDelay
    /\ InitRequests
    /\ InitAlone

\* The decorator on its own, for any arguments.
InitRetry ==
    /\ \E p \in RetryParams : retries = p[1] /\ delay = p[2]
    /\ InitRequests
    /\ InitAlone


\* ------------------------------------------------------- request handlers
ErrorResponse(e) == [status |-> "error", error |-> e]
SuccessResponse == [status |-> "success", error |-> Ok]

\* The handler's "except Exception as e": reply 500 with str(e), then end.
Fail(r, e) ==
    /\ resp' = [resp EXCEPT ![r] = ErrorResponse(e)]
    /\ pc' = [pc EXCEPT ![r] = "done"]
    /\ running' = NoReq

\* A request arrives: the handler generates its session id and creates its
\* scratch directory.
Begin(r) ==
    /\ pc[r] = "idle"
    /\ running = NoReq
    /\ \E k \in {"process", "timeline"}, s \in SessionIds :
        /\ kind' = [kind EXCEPT ![r] = k]
        /\ session_id' = [session_id EXCEPT ![r] = s]
        /\ dirs' = dirs \cup {s}
        /\ fsops' = fsops \cup Ops(r, "mkdir", {SessionDir(s)})
        /\ pc' = [pc EXCEPT ![r] = IF k = "process" THEN "save" ELSE "read"]
    /\ running' = r
    /\ UNCHANGED <<retries, delay, api_key, nsaved, saved_paths,
                   file_paths, combined, i, calls, sleeps, attempts,
                   wrapped, resp, cleanup>>
    /\ UNCHANGED <<aloneVars, steps, uploads, slide_text>>

\* "for file in files": the loop goes on while uploads remain, then the
\* handler moves on to the merge.
SaveLoopNext(last) == IF last THEN "merge" ELSE "save"

\* One round of the save loop: the upload is written under the joined path
\* through aiofiles, whose awaits suspend the request.
SaveFile(r) ==
    /\ pc[r] = "save"
    /\ CanRun(r)
    /\ \E name \in FileNames, more \in BOOLEAN :
        LET last == ~(more /\ nsaved[r] + 1 < MaxFiles) IN
        /\ fsops' = fsops \cup
               Ops(r, "write", {Join(SessionDir(session_id[r]), name)})
        /\ saved_paths' = [saved_paths EXCEPT ![r] = @ \cup {name}]
        /\ pc' = [pc EXCEPT ![r] = SaveLoopNext(last)]
        /\ steps' = [steps EXCEPT ![r] =
               Append(@, IF last THEN "save" ELSE "save+")]
    /\ nsaved' = [nsaved EXCEPT ![r] = @ + 1]
    /\ running' = NoReq
    /\ UNCHANGED <<retries, delay, api_key, kind, session_id, file_paths,
                   combined, i, calls, sleeps, attempts, wrapped, resp, dirs,
                   cleanup>>
    /\ UNCHANGED <<aloneVars, uploads, slide_text>>

\* ordered_paths = [saved_paths[f] for f in ordered_filenames if f in saved_paths]
OrderedPaths(r, order) ==
    LET kept == SelectSeq(order, LAMBDA f : f \in saved_paths[r])
    IN  [k \in 1..Len(kept) |-> Join(SessionDir(session_id[r]), kept[k])]

\* The reorder step and the entry of merge_audios, which rejects an empty
\* list.  The call does not suspend: the request keeps the loop.
MergeCall(r) ==
    /\ pc[r] = "merge"
    /\ CanRun(r)
    /\ \E order \in SeqsUpTo(FileNames, MaxFiles) :
        LET paths == OrderedPaths(r, order) IN
        /\ file_paths' = [file_paths EXCEPT ![r] = paths]
        /\ IF paths = <<>>
           THEN /\ Fail(r, ValueError)
                /\ steps' = [steps EXCEPT ![r] =
                       @ \o <<"merge", "merge_failed", "error">>]
           ELSE /\ pc' = [pc EXCEPT ![r] = "merging"]
                /\ running' = r
                /\ steps' = [steps EXCEPT ![r] = Append(@, "merge")]
                /\ UNCHANGED resp
    /\ UNCHANGED <<retries, delay, api_key, kind, session_id, nsaved,
                   saved_paths, combined, i, calls, sleeps, attempts, wrapped,
                   fsops, dirs, cleanup>>
    /\ UNCHANGED <<aloneVars, uploads, slide_text>>

\* Variant: the size check never raises.
MergeNeverRaises(too_small) == FALSE

\* "if os.path.getsize(abs_output_path) < 100: raise ValueError"
MergeRaises(too_small) == too_small

\* The body of merge_audios: every path is read, the zero-length and the
\* undecodable ones are skipped, the rest is concatenated in list order and
\* exported.  An output below 100 bytes raises ValueError; an export of no
\* audio at all may or may not be that small.  The argument list goes with
\* the call's frame.
MergeReturn(r) ==
    /\ pc[r] = "merging"
    /\ running = r
    /\ \E kinds \in [Range(file_paths[r]) -> FileKinds], small \in BOOLEAN :
        LET out == Combine(file_paths[r], kinds, <<>>) IN
        /\ combined' = [combined EXCEPT ![r] = out]
        /\ fsops' = fsops \cup Ops(r, "read", Range(file_paths[r]))
                          \cup Ops(r, "write", {MergedPath(session_id[r])})
        /\ IF MergeRaises(out = <<>> /\ small)
           THEN /\ Fail(r, ValueError)
                /\ steps' = [steps EXCEPT ![r] = @ \o <<"merge_failed", "error">>]
           ELSE /\ pc' = [pc EXCEPT ![r] = "wrapper"]
                /\ running' = r
                /\ steps' = [steps EXCEPT ![r] =
                       Append(@, IF out = <<>> /\ small
                                 THEN "merge_failed" ELSE "merged")]
                /\ UNCHANGED resp
    /\ file_paths' = [file_paths EXCEPT ![r] = <<>>]
    /\ UNCHANGED <<retries, delay, api_key, kind, session_id, nsaved,
                   saved_paths, i, calls, sleeps, attempts, wrapped, dirs,
                   cleanup>>
    /\ UNCHANGED <<aloneVars, uploads, slide_text>>

\* ------------------------------------------------- retry_with_backoff
\* Variant: the loop runs one round too many.
LoopDoneOneLate(r) == i[r] > retries

\* "for i in range(retries)" has run out.
LoopDone(r) == i[r] >= retries

\* "except errors.ClientError as e": the error is caught by the wrapper.
IsClientError(e) == e.type = "ClientError"

\* Variant: every caught ClientError is retried.
IsRateLimitAnyCode(e) == e.code >= 400

\* "if e.code == 429", for a caught ClientError.
IsRateLimit(e) == e.code = RateLimitCode

\* Variant: the exponent starts at 1.
WaitTimeFromOne(d, n) == d * (2 ^ (n + 1))

\* wait_time = delay * (2 ** i)
WaitTime(d, n) == d * (2 ^ n)

\* Variant: a blocking time.sleep keeps the event loop.
SleepHolderBlocking(r) == r

\* "await asyncio.sleep(wait_time)" hands the event loop back.
SleepHolder(r) == NoReq

\* Variant: one attempt counter shared by all calls.
AdvanceAttemptShared(r) == [q \in Req |-> i[q] + 1]

\* The loop variable belongs to the call: the next round advances it alone.
AdvanceAttempt(r) == [i EXCEPT ![r] = @ + 1]

\* The wrapped function raised e inside the wrapper's try block.
Raise(r, e) ==
    /\ attempts' = [attempts EXCEPT ![r] = Append(@, e)]
    /\ IF IsClientError(e) /\ IsRateLimit(e)
       THEN /\ sleeps' = [sleeps EXCEPT ![r] = Append(@, WaitTime(delay, i[r]))]
            /\ pc' = [pc EXCEPT ![r] = "sleeping"]
            /\ running' = SleepHolder(r)
            /\ UNCHANGED <<wrapped, resp>>
       ELSE /\ wrapped' = [wrapped EXCEPT ![r] = e]
            /\ pc' = [pc EXCEPT ![r] = "raised"]
            /\ UNCHANGED <<sleeps, running, resp>>

\* Variant: a retry reuses the first attempt's upload.
InvokeEntryReusingUpload(n) == IF n = 0 THEN "uploading" ELSE "generating"

\* The decorator wraps all of transcribe_audio: invocation number n (from 0)
\* runs the function from its top, and past the key check starts an upload.
InvokeEntry(n) == "uploading"

\* The head of the wrapper's loop.  With rounds left the wrapped function is
\* invoked: transcribe_audio first checks the API key, then starts the
\* upload.  With none left the wrapper raises its own exception.
WrapperStep(r) ==
    /\ pc[r] = "wrapper"
    /\ running = r
    /\ IF LoopDone(r)
       THEN /\ wrapped' = [wrapped EXCEPT ![r] = MaxRetriesExceeded]
            /\ pc' = [pc EXCEPT ![r] = "raised"]
            /\ UNCHANGED <<calls, attempts, sleeps, running, resp, steps,
                           uploads>>
       ELSE /\ calls' = [calls EXCEPT ![r] = @ + 1]
            /\ steps' = [steps EXCEPT ![r] =
                   IF calls[r] = 0 THEN Append(@, "transcribe") ELSE @]
            /\ IF api_key
               THEN /\ pc' = [pc EXCEPT ![r] = InvokeEntry(calls[r])]
                    /\ uploads' = [uploads EXCEPT ![r] =
                           IF InvokeEntry(calls[r]) = "uploading"
                           THEN @ + 1 ELSE @]
                    /\ UNCHANGED <<running, attempts, sleeps, wrapped, resp>>
               ELSE /\ Raise(r, ValueError)
                    /\ UNCHANGED uploads
    /\ UNCHANGED <<retries, delay, api_key, kind, session_id, nsaved,
                   saved_paths, file_paths, combined, i, fsops, dirs,
                   cleanup>>
    /\ UNCHANGED <<aloneVars, slide_text>>

\* client.files.upload returns or raises; the call is synchronous.
UploadReturn(r) ==
    /\ pc[r] = "uploading"
    /\ running = r
    /\ fsops' = fsops \cup Ops(r, "read", {MergedPath(session_id[r])})
    /\ \E o \in RemoteOutcomes :
        IF o = Ok
        THEN /\ pc' = [pc EXCEPT ![r] = "generating"]
             /\ UNCHANGED <<running, attempts, sleeps, wrapped, resp>>
        ELSE Raise(r, o)
    /\ UNCHANGED <<retries, delay, api_key, kind, session_id, nsaved,
                   saved_paths, file_paths, combined, i, calls, dirs,
                   cleanup>>
    /\ UNCHANGED <<aloneVars, steps, uploads, slide_text>>

\* client.models.generate_content returns or raises (synchronously), then
\* json.loads(response.text); on success the wrapper returns the result.
GenerateReturn(r) ==
    /\ pc[r] = "generating"
    /\ running = r
    /\ \E o \in RemoteOutcomes, body \in Bodies :
        IF o = Ok /\ ParseTranscription(body) = Ok
        THEN /\ attempts' = [attempts EXCEPT ![r] = Append(@, Ok)]
             /\ wrapped' = [wrapped EXCEPT ![r] = Ok]
             /\ pc' = [pc EXCEPT ![r] = "returned"]
             /\ UNCHANGED <<sleeps, running, resp>>
        ELSE Raise(r, IF o = Ok THEN JSONDecodeError ELSE o)
    /\ UNCHANGED <<retries, delay, api_key, kind, session_id, nsaved,
                   saved_paths, file_paths, combined, i, calls, fsops,
                   dirs, cleanup>>
    /\ UNCHANGED <<aloneVars, steps, uploads, slide_text>>

\* The backoff timer fires and the loop resumes the wrapper for its next round.
Wake(r) ==
    /\ pc[r] = "sleeping"
    /\ CanRun(r)
    /\ i' = AdvanceAttempt(r)
    /\ pc' = [pc EXCEPT ![r] = "wrapper"]
    /\ running' = r
    /\ UNCHANGED <<retries, delay, api_key, kind, session_id, nsaved,
                   saved_paths, file_paths, combined, calls, sleeps,
                   attempts, wrapped, resp, fsops, dirs, cleanup>>
    /\ UNCHANGED <<aloneVars, steps, uploads, slide_text>>

\* ---------------------------------------- process_audio, after the wrapper
\* transcribe_audio returned: shutil.rmtree(session_dir), which raises when
\* the directory is gone, then the success response.
ProcessRespond(r) ==
    /\ pc[r] = "returned"
    /\ kind[r] = "process"
    /\ running = r
    /\ cleanup' = [cleanup EXCEPT ![r] = TRUE]
    /\ fsops' = fsops \cup Ops(r, "delete", {SessionDir(session_id[r])})
    /\ dirs' = dirs \ {session_id[r]}
    /\ resp' = [resp EXCEPT ![r] =
           IF session_id[r] \in dirs THEN SuccessResponse
           ELSE ErrorResponse(FileNotFoundError)]
    /\ steps' = [steps EXCEPT ![r] =
           @ \o <<"transcribed",
                  IF session_id[r] \in dirs THEN "respond" ELSE "error">>]
    /\ pc' = [pc EXCEPT ![r] = "done"]
    /\ running' = NoReq
    /\ UNCHANGED <<retries, delay, api_key, kind, session_id, nsaved,
                   saved_paths, file_paths, combined, i, calls, sleeps,
                   attempts, wrapped>>
    /\ UNCHANGED <<aloneVars, uploads, slide_text>>

\* transcribe_audio raised: the handler's except block answers with it.
ProcessExcept(r) ==
    /\ pc[r] = "raised"
    /\ kind[r] = "process"
    /\ running = r
    /\ Fail(r, wrapped[r])
    /\ steps' = [steps EXCEPT ![r] = @ \o <<"transcribe_failed", "error">>]
    /\ UNCHANGED <<retries, delay, api_key, kind, session_id, nsaved,
                   saved_paths, file_paths, combined, i, calls, sleeps,
                   attempts, wrapped, fsops, dirs, cleanup>>
    /\ UNCHANGED <<aloneVars, uploads, slide_text>>

\* ------------------------------------------- a bare call of the wrapper
\* Some task awaits the decorated function.
Call(r) ==
    /\ pc[r] = "idle"
    /\ running = NoReq
    /\ kind' = [kind EXCEPT ![r] = "call"]
    /\ pc' = [pc EXCEPT ![r] = "wrapper"]
    /\ running' = r
    /\ UNCHANGED <<retries, delay, api_key, session_id, nsaved, saved_paths,
                   file_paths, combined, i, calls, sleeps, attempts,
                   wrapped, resp, fsops, dirs, cleanup>>
    /\ UNCHANGED <<aloneVars, steps, uploads, slide_text>>

\* The wrapper has returned or raised and the calling task ends.
CallEnd(r) ==
    /\ pc[r] \in {"returned", "raised"}
    /\ kind[r] = "call"
    /\ running = r
    /\ pc' = [pc EXCEPT ![r] = "done"]
    /\ running' = NoReq
    /\ UNCHANGED <<retries, delay, api_key, kind, session_id, nsaved,
                   saved_paths, file_paths, combined, i, calls, sleeps,
                   attempts, wrapped, resp, fsops, dirs, cleanup>>
    /\ UNCHANGED <<aloneVars, steps, uploads, slide_text>>

\* ------------------------------------------------------ generate_timeline
\* "await transcription_json.read()" and "await slide_doc.read()": an upload
\* held in memory is read without suspending, a spooled one in a thread.
TimelineRead(r) ==
    /\ pc[r] = "read"
    /\ running = r
    /\ pc' = [pc EXCEPT ![r] = "extract"]
    /\ steps' = [steps EXCEPT ![r] = Append(@, "read")]
    /\ running' \in {NoReq, r}
    /\ UNCHANGED <<retries, delay, api_key, kind, session_id, nsaved,
                   saved_paths, file_paths, combined, i, calls, sleeps,
                   attempts, wrapped, resp, fsops, dirs, cleanup>>
    /\ UNCHANGED <<aloneVars, uploads, slide_text>>

\* Results of extract_text: some text, whitespace only, nothing.
SlideTexts == {"slide text", " ", ""}

\* str.strip() on these texts.
Strip(t) == IF t = " " THEN "" ELSE t

\* Variant: the text is tested without stripping it.
IsBlankUnstripped(t) == t = ""

\* "if not slide_text.strip()"
IsBlank(t) == Strip(t) = ""

\* The transcription is parsed and the slide text extracted; blank text
\* raises ValueError.  Otherwise generate_content is called, directly.
TimelineExtract(r) ==
    /\ pc[r] = "extract"
    /\ CanRun(r)
    /\ \E tj \in {"json", "garbage"}, doc \in SlideTexts :
        IF tj = "garbage"
        THEN /\ Fail(r, JSONDecodeError)
             /\ steps' = [steps EXCEPT ![r] = @ \o <<"parse_failed", "error">>]
             /\ UNCHANGED slide_text
        ELSE /\ slide_text' = [slide_text EXCEPT ![r] = doc]
             /\ IF IsBlank(doc)
                THEN /\ Fail(r, ValueError)
                     /\ steps' = [steps EXCEPT ![r] =
                            @ \o <<"extract", "extract_failed", "error">>]
                ELSE /\ pc' = [pc EXCEPT ![r] = "planning"]
                     /\ running' = r
                     /\ steps' = [steps EXCEPT ![r] = @ \o <<"extract", "plan">>]
                     /\ UNCHANGED resp
    /\ UNCHANGED <<retries, delay, api_key, kind, session_id, nsaved,
                   saved_paths, file_paths, combined, i, calls, sleeps,
                   attempts, wrapped, fsops, dirs, cleanup>>
    /\ UNCHANGED <<aloneVars, uploads>>

\* generate_content returns or raises (synchronously).  The text is parsed,
\* once more without its fence if need be; the plan is written, the scratch
\* directory removed (ignore_errors=True) and the response sent.
TimelinePlanReturn(r) ==
    /\ pc[r] = "planning"
    /\ running = r
    /\ \E o \in RemoteOutcomes, body \in Bodies :
        IF o = Ok /\ ParsePlan(body) = Ok
        THEN /\ fsops' = fsops \cup Ops(r, "write", {PlanPath(session_id[r])})
                               \cup Ops(r, "delete", {SessionDir(session_id[r])})
             /\ cleanup' = [cleanup EXCEPT ![r] = TRUE]
             /\ dirs' = dirs \ {session_id[r]}
             /\ resp' = [resp EXCEPT ![r] = SuccessResponse]
             /\ steps' = [steps EXCEPT ![r] = @ \o <<"planned", "write", "respond">>]
             /\ pc' = [pc EXCEPT ![r] = "done"]
             /\ running' = NoReq
        ELSE /\ Fail(r, IF o = Ok THEN JSONDecodeError ELSE o)
             /\ steps' = [steps EXCEPT ![r] = @ \o <<"plan_failed", "error">>]
             /\ UNCHANGED <<fsops, dirs, cleanup>>
    /\ UNCHANGED <<retries, delay, api_key, kind, session_id, nsaved,
                   saved_paths, file_paths, combined, i, calls, sleeps,
                   attempts, wrapped>>
    /\ UNCHANGED <<aloneVars, uploads, slide_text>>

\* ------------------------------------------------------------------ system
Step(r) ==
    \/ Begin(r)
    \/ SaveFile(r)
    \/ MergeCall(r)
    \/ MergeReturn(r)
    \/ WrapperStep(r)
    \/ UploadReturn(r)
    \/ GenerateReturn(r)
    \/ Wake(r)
    \/ ProcessRespond(r)
    \/ ProcessExcept(r)
    \/ TimelineRead(r)
    \/ TimelineExtract(r)
    \/ TimelinePlanReturn(r)

Next == \E r \in Req : Step(r)

Spec == Init /\ [][Next]_vars

StepRetry(r) ==
    \/ Call(r)
    \/ WrapperStep(r)
    \/ UploadReturn(r)
    \/ GenerateReturn(r)
    \/ Wake(r)
    \/ CallEnd(r)

NextRetry == \E r \in Req : StepRetry(r)

SpecRetry == InitRetry /\ [][NextRetry]_vars

\* The two parsers taken alone, on every text of up to MaxLines lines.
InitParse ==
    /\ retries = DefaultRetries
    /\ delay = DefaultDelay
    /\ InitRequests
    /\ p_text \in Texts
    /\ p_out = [transcription |-> Pending, plan |-> Pending]
    /\ m_paths = <<>>
    /\ m_kinds = [p \in MergePaths |-> "audio"]
    /\ m_out = [error |-> Pending, audio |-> <<>>]

TranscriptionParses ==
    /\ p_out.transcription = Pending
    /\ p_out' = [p_out EXCEPT !.transcription = ParseTranscription(p_text)]
    /\ UNCHANGED <<serviceVars, p_text, m_paths, m_kinds, m_out>>

PlanParses ==
    /\ p_out.plan = Pending
    /\ p_out' = [p_out EXCEPT !.plan = ParsePlan(p_text)]
    /\ UNCHANGED <<serviceVars, p_text, m_paths, m_kinds, m_out>>

NextParse == TranscriptionParses \/ PlanParses

SpecParse == InitParse /\ [][NextParse]_vars

\* merge_audios taken alone, on every list of up to MaxMerge paths and every
\* content of the files.
InitMerge ==
    /\ retries = DefaultRetries
    /\ delay = DefaultDelay
    /\ InitRequests
    /\ p_text = <<"">>
    /\ p_out = [transcription |-> Pending, plan |-> Pending]
    /\ m_paths \in SeqsUpTo(MergePaths, MaxMerge)
    /\ m_kinds \in [MergePaths -> FileKinds]
    /\ m_out = [error |-> Pending, audio |-> <<>>]

\* merge_audios(file_paths, output_path): no path raises; else the files are
\* combined and exported, and an export under 100 bytes raises. Only the
\* export of an empty audio can be that small.
MergeAudios ==
    /\ m_out.error = Pending
    /\ \E small \in BOOLEAN :
        LET out == Combine(m_paths, m_kinds, <<>>) IN
        m_out' = IF m_paths = <<>>
                 THEN [error |-> ValueError, audio |-> <<>>]
                 ELSE IF MergeRaises(out = <<>> /\ small)
                 THEN [error |-> ValueError, audio |-> out]
                 ELSE [error |-> Ok, audio |-> out]
    /\ UNCHANGED <<serviceVars, p_text, p_out, m_paths, m_kinds>>

NextMerge == MergeAudios

SpecMerge == InitMerge /\ [][NextMerge]_vars

\* The service handling a single request.
NextOne == Step(1)

SpecOne == Init /\ [][NextOne]_vars

\* ================================================================= claims
RateLimited == ClientError(RateLimitCode)

\* The wrapper call of r has ended, by return or by exception.
Ended(r) == wrapped[r] # Pending

\* Every invocation of r's wrapped function so far was rate-limited.
AllRateLimited(r) ==
    /\ attempts[r] # <<>>
    /\ \A k \in 1..Len(attempts[r]) : attempts[r][k] = RateLimited

\* The number of r's invocations that were rate-limited.
RateLimitCount(r) ==
    Cardinality({k \in 1..Len(attempts[r]) : attempts[r][k] = RateLimited})

\* d*2^0, d*2^1, ..., d*2^(n-1)
Backoff(d, n) == [k \in 1..n |-> d * (2 ^ (k - 1))]

Last(s) == s[Len(s)]

\* C1: a wrapped call whose every attempt is rate-limited invokes the
\* operation exactly `retries` times and then fails with the wrapper's own
\* "max retries exceeded" exception; no call ever fails with the rate-limit
\* error itself.
C1_ExhaustedAfterNCalls ==
    \A r \in Req :
        /\ wrapped[r] # RateLimited
        /\ AllRateLimited(r) => calls[r] <= retries
        /\ (Ended(r) /\ AllRateLimited(r)) =>
               /\ calls[r] = retries
               /\ Len(attempts[r]) = retries
               /\ wrapped[r] = MaxRetriesExceeded

C1_Witness ==
    \E r \in Req :
        /\ retries >= 2
        /\ AllRateLimited(r)
        /\ calls[r] = retries
        /\ wrapped[r] = MaxRetriesExceeded

\* C2: a wrapped call whose every attempt is rate-limited has slept exactly
\* delay*2^0 .. delay*2^(retries-2) when it fails: retries-1 sleeps, none
\* after the last invocation.
C2_SleepsBetweenCalls ==
    \A r \in Req :
        (Ended(r) /\ AllRateLimited(r)) =>
            sleeps[r] = Backoff(delay, retries - 1)

\* C3: an attempt that fails with anything but the rate-limit error ends the
\* call with that very error: it is the last attempt, nothing is slept after
\* it, and every earlier attempt was rate-limited (so a first-attempt
\* failure means exactly one invocation).
C3_OtherErrorsPropagate ==
    \A r \in Req :
        /\ \A k \in 1..(Len(attempts[r]) - 1) : attempts[r][k] = RateLimited
        /\ (attempts[r] # <<>> /\ Last(attempts[r]) \notin {Ok, RateLimited}) =>
               /\ wrapped[r] = Last(attempts[r])
               /\ calls[r] = Len(attempts[r])
               /\ Len(sleeps[r]) = Len(attempts[r]) - 1
               /\ pc[r] \in {"raised", "done"}

C3_Witness ==
    \E r \in Req :
        /\ retries >= 2
        /\ attempts[r] = <<ClientError(400)>>
        /\ wrapped[r] = ClientError(400)
        /\ calls[r] = 1
        /\ sleeps[r] = <<>>

\* C4: a call rate-limited on its first k attempts and successful on attempt
\* k+1 (k < retries) returns after exactly k+1 invocations and k sleeps of
\* delay*2^0 .. delay*2^(k-1); a success ends the call at once.
C4_SuccessAfterKRetries ==
    \A r \in Req :
        /\ (attempts[r] # <<>> /\ Last(attempts[r]) = Ok) => wrapped[r] = Ok
        /\ wrapped[r] = Ok =>
               LET k == Len(attempts[r]) - 1 IN
               /\ k \in 0..(retries - 1)
               /\ Last(attempts[r]) = Ok
               /\ \A j \in 1..k : attempts[r][j] = RateLimited
               /\ calls[r] = k + 1
               /\ sleeps[r] = Backoff(delay, k)

C4_Witness ==
    \E r \in Req :
        /\ wrapped[r] = Ok
        /\ attempts[r] = <<RateLimited, RateLimited, Ok>>
        /\ calls[r] = 3
        /\ sleeps[r] = <<delay, 2 * delay>>

\* A remote model call ended r's request with the rate-limit error itself.
EndedByRateLimit(r) == resp[r] = ErrorResponse(RateLimited)

\* C5: every remote model call, the planner's as well as the transcriber's,
\* is retried on the rate-limit signal: no request is answered with the
\* rate-limit error itself.
C5_EveryRemoteCallRetried ==
    \A r \in Req : ~EndedByRateLimit(r)

\* Some request other than r could be run by the event loop now.
OtherCanStep(r) ==
    \A q \in Req \ {r} : pc[q] # "done" => ENABLED StepRetry(q)

\* C6: a call in its backoff sleep does not hold the event loop, and every
\* other unfinished call can take a step while it sleeps.
C6_SleepDoesNotBlock ==
    \A r \in Req :
        pc[r] = "sleeping" => (running # r /\ (running = NoReq => OtherCanStep(r)))

C6_Witness ==
    \E r, q \in Req :
        /\ r # q
        /\ pc[r] = "sleeping"
        /\ running = q
        /\ pc[q] = "generating"

\* r is inside the merge or inside a call to the remote service.
InBlockingCall(r) == pc[r] \in {"merging", "uploading", "generating", "planning"}

\* C7: the merge and the remote calls are suspension points: while a request
\* is inside one of them, any other unfinished request can be scheduled.
C7_CallsAreSuspensionPoints ==
    \A r \in Req :
        InBlockingCall(r) =>
            \A q \in Req \ {r} : pc[q] # "done" => ENABLED Step(q)

\* C8: the wrapper keeps no state across calls: a call's loop index, its
\* number of invocations and its sleeps are functions of its own
\* rate-limited attempts, whatever the other calls do.
C8_CallsAreIndependent ==
    \A r \in Req :
        /\ sleeps[r] = Backoff(delay, RateLimitCount(r))
        /\ i[r] = RateLimitCount(r) - (IF pc[r] = "sleeping" THEN 1 ELSE 0)
        /\ calls[r] =
               Len(attempts[r]) +
               (IF pc[r] \in {"uploading", "generating"} THEN 1 ELSE 0)
        /\ calls[r] <= retries

C8_Witness ==
    \E r, q \in Req :
        /\ r # q
        /\ pc[r] = "sleeping" /\ RateLimitCount(r) = 2
        /\ pc[q] = "sleeping" /\ RateLimitCount(q) = 1

\* C9: removal of the scratch directory is attempted on every path on which
\* a request ends, failure paths included.
C9_CleanupOnEveryPath ==
    \A r \in Req : pc[r] = "done" => cleanup[r]

\* The paths request r has touched.
PathsOf(r) == {op[3] : op \in {o \in fsops : o[1] = r}}

\* C10: requests with distinct session ids never touch the same path.
C10_NoSharedPaths ==
    \A r, q \in Req :
        (r # q /\ session_id[r] # session_id[q]) =>
            PathsOf(r) \cap PathsOf(q) = {}


\* A /generate-timeline/ request whose slide document gave no text.
BlankSlides(r) == kind[r] = "timeline" /\ slide_text[r] \in {"", " "}

\* C12: a /generate-timeline/ request whose extracted slide text is empty or
\* whitespace-only ends with the error response carrying the ValueError of the
\* text check; the planner call is never issued and no plan is written for it.
C12_BlankSlidesStopTheRequest ==
    \A r \in Req :
        BlankSlides(r) =>
            /\ pc[r] = "done"
            /\ resp[r] = ErrorResponse(ValueError)
            /\ "plan" \notin Range(steps[r])
            /\ \A s \in SessionIds : <<r, "write", PlanPath(s)>> \notin fsops

\* A request ended on whitespace-only slide text.
C12_Witness ==
    \E r \in Req :
        /\ BlankSlides(r) /\ slide_text[r] = " "
        /\ resp[r] = ErrorResponse(ValueError)

\* The order in which the steps of process_audio may follow each other.
ProcessOrder ==
    { <<"save+", "save+">>, <<"save+", "save">>, <<"save", "merge">>,
      <<"merge", "merged">>, <<"merge", "merge_failed">>,
      <<"merged", "transcribe">>,
      <<"transcribe", "transcribed">>, <<"transcribe", "transcribe_failed">>,
      <<"transcribed", "respond">>, <<"transcribed", "error">>,
      <<"merge_failed", "error">>, <<"transcribe_failed", "error">> }

\* C14: the steps of one /process/ request follow each other as save, merge,
\* transcribe, respond: the merge comes after the last save, transcription
\* after a successful merge, the success response after a successful
\* transcription, and a failed step is followed by the error response only.
C14_StepsInOrder ==
    \A r \in Req :
        kind[r] = "process" =>
            /\ steps[r] # <<>> => steps[r][1] \in {"save+", "save"}
            /\ \A k \in 1..(Len(steps[r]) - 1) :
                   <<steps[r][k], steps[r][k + 1]>> \in ProcessOrder
            /\ resp[r] = SuccessResponse =>
                   /\ "transcribed" \in Range(steps[r])
                   /\ wrapped[r] = Ok
            /\ calls[r] > 0 => "merged" \in Range(steps[r])
            /\ "merge_failed" \in Range(steps[r]) => calls[r] = 0

\* A request went through all four steps and answered with success.
C14_Witness ==
    \E r \in Req :
        /\ kind[r] = "process"
        /\ steps[r] = <<"save+", "save", "merge", "merged", "transcribe",
                        "transcribed", "respond">>

\* A merge that failed ended its request.
C14_WitnessFailure ==
    \E r \in Req :
        /\ kind[r] = "process"
        /\ steps[r] = <<"save", "merge", "merge_failed", "error">>
        /\ calls[r] = 0

\* C15 as stated: over one wrapped call the number of uploads started equals
\* the number of attempts made.
C15_UploadPerAttempt ==
    \A r \in Req : uploads[r] = calls[r]

\* C15, amended: with the API key set every attempt starts an upload, so the
\* uploads started equal the attempts made; without the key the only attempt
\* raises at the key check and nothing is uploaded.
C15_UploadPerAttemptWithKey ==
    \A r \in Req :
        /\ api_key => uploads[r] = calls[r]
        /\ ~api_key => uploads[r] = 0 /\ calls[r] <= 1

\* After a rate-limited attempt the merged file is being uploaded again.
C15_Witness ==
    \E r \in Req :
        /\ attempts[r] = <<RateLimited>>
        /\ pc[r] = "uploading"
        /\ uploads[r] = 2


\* A valid JSON document wrapped in a formatting fence.
FenceWrapped(text) ==
    /\ Len(text) = 3
    /\ text[1] \in {Fence, FenceJson}
    /\ text[2] = "{}"
    /\ text[3] = Fence

\* C11: both clients get a result out of a fence-wrapped valid JSON body: each
\* strips the fence of a text that does not parse and parses once more, and
\* fails only if that second parse fails.
C11_FencedBodyParsesInBothClients ==
    FenceWrapped(p_text) =>
        /\ p_out.transcription \in {Pending, Ok}
        /\ p_out.plan \in {Pending, Ok}

\* The planner's half of C11, which the code keeps.
PlannerUnfences ==
    /\ FenceWrapped(p_text) => p_out.plan \in {Pending, Ok}
    /\ p_out.plan = JSONDecodeError => ~JsonLoads(p_text)

\* The inputs that merge_audios should keep: those holding audio.
Valid(paths, kinds) == SelectSeq(paths, LAMBDA p : kinds[p] = "audio")

\* C13: for a non-empty list of paths merge_audios combines exactly the paths
\* that hold audio, in the order of the list, passing over every zero-byte or
\* undecodable file, and it succeeds when at least one path holds audio.
C13_MergeKeepsValidInOrder ==
    (m_out.error # Pending /\ m_paths # <<>>) =>
        /\ m_out.audio = Valid(m_paths, m_kinds)
        /\ Valid(m_paths, m_kinds) # <<>> => m_out.error = Ok

\* A bad file between two different good ones was passed over.
C13_Witness ==
    /\ Len(m_paths) = 3
    /\ m_kinds[m_paths[2]] # "audio"
    /\ m_paths[1] # m_paths[3]
    /\ m_out = [error |-> Ok, audio |-> <<m_paths[1], m_paths[3]>>]

====
